---- MODULE Spec2Model ----
(***************************************************************************)
(* Brute-force minimum vertex cover of community/optimization/            *)
(* vertex_cover.ipynb: the graph cell, brute_force() with its nested      *)
(* bitfield(), the print of its result, and the exact-eigensolver cell    *)
(* with its assertion on the solution vector.                             *)
(*                                                                         *)
(* Python lists and numpy arrays are 0-based; the sequences below are     *)
(* 1-based, so vertex k of the notebook is position k+1 here.             *)
(***************************************************************************)
EXTENDS Integers, Sequences, FiniteSets

\* ---- bounds of the model ------------------------------------------------
MaxNodes == 3

MaxWeight == 2

\* ---- state ----------------------------------------------------------------
VARIABLES num_nodes, w, pc, L, max, minimal_v, i, cur, cur_v, evals, size, stdout, sol

vars == <<num_nodes, w, pc, L, max, minimal_v, i, cur, cur_v, evals, size, stdout, sol>>

\* ---- values ---------------------------------------------------------------
\* np.inf, and an integer held by minimal_v
Inf == [inf |-> TRUE, val |-> 0]

Fin(n) == [inf |-> FALSE, val |-> n]

\* Python's  a < b  where b is np.inf or an integer
LessThan(a, b) == b.inf \/ a < b.val

RECURSIVE Pow2(_)
Pow2(n) == IF n = 0 THEN 1 ELSE 2 * Pow2(n - 1)

Nodes(n) == 1..n

\* the pairs random_graph draws an edge for: i < j
UpperPairs(n) == {p \in Nodes(n) \X Nodes(n) : p[1] < p[2]}

\* what vertex_cover.random_graph(n, ...) can return: an n x n symmetric
\* matrix with a zero diagonal, 0 for "no edge", a positive weight otherwise
RandomGraphs(n) ==
    { [p \in Nodes(n) \X Nodes(n) |->
          IF p[1] < p[2] THEN u[p]
          ELSE IF p[1] > p[2] THEN u[<<p[2], p[1]>>]
          ELSE 0] : u \in [UpperPairs(n) -> 0..MaxWeight] }

\* the matrix printed by the graph cell for seed 100, num_nodes = 3
SeededGraph ==
    [p \in Nodes(3) \X Nodes(3) |->
        IF p \in {<<1, 2>>, <<2, 1>>} THEN 4
        ELSE IF p \in {<<1, 3>>, <<3, 1>>} THEN 5
        ELSE IF p \in {<<2, 3>>, <<3, 2>>} THEN 3
        ELSE 0]

\* ---- bitfield -------------------------------------------------------------
\* Python's bin(num)[2:] for num > 0: the digits of num, most significant first
RECURSIVE Bin(_)
Bin(num) ==
    IF num = 0 THEN <<>>
    ELSE Append(Bin(num \div 2), IF num % 2 = 1 THEN "1" ELSE "0")

\* str.zfill(width): pad with "0" on the left up to width
RECURSIVE zfill(_, _)
zfill(s, width) == IF Len(s) >= width THEN s ELSE zfill(<<"0">> \o s, width)

\* np.binary_repr(num, width) for num >= 0
binary_repr(num, width) ==
    IF num = 0
    THEN [k \in 1..(IF width = 0 THEN 1 ELSE width) |-> "0"]
    ELSE LET binary == Bin(num)
             outwidth == IF Len(binary) >= width THEN Len(binary) ELSE width
         IN  zfill(binary, outwidth)

\* int(digit)
int(digit) == IF digit = "1" THEN 1 ELSE 0

bitfield(n, LL) ==
    LET result == binary_repr(n, LL)
    IN  [k \in 1..Len(result) |-> int(result[k])]

\* ---- the loop body's helpers ------------------------------------------------
\* slip: max = 2**L - 1
MaxCandidates_OffByOne(LL) == Pow2(LL) - 1

\* max = 2**L
MaxCandidates(LL) == Pow2(LL)

\* slip: exactly one endpoint selected (x[i] + x[j] == 1)
check_full_edge_coverage_ExactlyOne(x, ww) ==
    \A p \in DOMAIN ww : ww[p] # 0 => (x[p[1]] + x[p[2]] = 1)

\* vertex_cover.check_full_edge_coverage(x, w): every pair with a nonzero
\* weight has an endpoint selected
check_full_edge_coverage(x, ww) ==
    \A p \in DOMAIN ww : ww[p] # 0 => (x[p[1]] = 1 \/ x[p[2]] = 1)

\* the pairs the predicate reads x at; an index outside x raises IndexError
IndexInRange(x, ww) ==
    \A p \in DOMAIN ww : ww[p] # 0 => (p[1] \in DOMAIN x /\ p[2] \in DOMAIN x)

\* slip: len(cur)
count_nonzero_Len(x) == Len(x)

\* np.count_nonzero(cur)
count_nonzero(x) == Cardinality({k \in DOMAIN x : x[k] # 0})

\* slip: the inner comparison is missing
UpdateMinimal_NoCompare(valid, nonzerocount, m) ==
    IF valid THEN Fin(nonzerocount) ELSE m

\* slip: the inner comparison is reversed (nonzerocount > minimal_v)
UpdateMinimal_Greater(valid, nonzerocount, m) ==
    IF valid /\ ~m.inf /\ nonzerocount > m.val THEN Fin(nonzerocount) ELSE m

\* if cur_v: if nonzerocount < minimal_v: minimal_v = nonzerocount
UpdateMinimal(valid, nonzerocount, m) ==
    IF valid /\ LessThan(nonzerocount, m) THEN Fin(nonzerocount) ELSE m

\* ---- initial state: the graph cell has run ---------------------------------
Init ==
    /\ num_nodes \in 0..MaxNodes
    /\ w \in RandomGraphs(num_nodes) \cup (IF num_nodes = 3 THEN {SeededGraph} ELSE {})
    /\ pc = "call"
    /\ L = 0
    /\ max = 0
    /\ minimal_v = Inf
    /\ i = 0
    /\ cur = <<>>
    /\ cur_v = FALSE
    /\ evals = 0
    /\ size = Inf
    /\ stdout = <<>>
    /\ sol = <<>>

\* ---- brute_force() ----------------------------------------------------------
\* L = num_nodes; max = 2**L; minimal_v = np.inf; the range iterator at 0
Enter ==
    /\ pc = "call"
    /\ L' = num_nodes
    /\ max' = MaxCandidates(num_nodes)
    /\ minimal_v' = Inf
    /\ i' = 0
    /\ pc' = "loop"
    /\ UNCHANGED <<num_nodes, w, cur, cur_v, evals, size, stdout, sol>>

\* one pass of the for body; i is the next integer range(max) yields
Iterate ==
    /\ pc = "loop"
    /\ i < max
    /\ LET c == bitfield(i, L)
       IN  /\ cur' = c
           /\ evals' = evals + 1
           /\ IF IndexInRange(c, w)
              THEN LET v == check_full_edge_coverage(c, w)
                   IN  /\ cur_v' = v
                       /\ minimal_v' = UpdateMinimal(v, count_nonzero(c), minimal_v)
                       /\ pc' = "loop"
              ELSE /\ pc' = "error"
                   /\ UNCHANGED <<cur_v, minimal_v>>
    /\ i' = i + 1
    /\ UNCHANGED <<num_nodes, w, L, max, size, stdout, sol>>

\* range(max) is exhausted: return minimal_v; size = brute_force()
Return ==
    /\ pc = "loop"
    /\ i >= max
    /\ size' = minimal_v
    /\ pc' = "print"
    /\ UNCHANGED <<num_nodes, w, L, max, minimal_v, i, cur, cur_v, evals, stdout, sol>>

\* print('Size of the vertex cover', size)
PrintSize ==
    /\ pc = "print"
    /\ stdout' = stdout \o << [kind |-> "str", str |-> "Size of the vertex cover"],
                              [kind |-> "size", num |-> size] >>
    /\ pc' = "done"
    /\ UNCHANGED <<num_nodes, w, L, max, minimal_v, i, cur, cur_v, evals, size, sol>>

\* ---- Part I / Part II: the exact eigensolver on the seeded graph ------------
\* the solver is a library call; the cell asserts its solution to be [0, 1, 1]
\* and prints the number of selected vertices
ExactEigensolverCell ==
    /\ pc = "done"
    /\ w = SeededGraph
    /\ sol' = <<0, 1, 1>>
    /\ stdout' = stdout \o << [kind |-> "str", str |-> "Size of the vertex cover"],
                              [kind |-> "size", num |-> Fin(count_nonzero(<<0, 1, 1>>))] >>
    /\ pc' = "solved"
    /\ UNCHANGED <<num_nodes, w, L, max, minimal_v, i, cur, cur_v, evals, size>>

Next == Enter \/ Iterate \/ Return \/ PrintSize \/ ExactEigensolverCell

Spec == Init /\ [][Next]_vars

\* the notebook runs its cells to the end: every enabled step is taken
FairSpec == Spec /\ WF_vars(Next)

\* ---- reference notions the properties are stated with ------------------------
BinaryVectors(n) == [1..n -> {0, 1}]

AllOnes(n) == [k \in 1..n |-> 1]

RECURSIVE Popcount(_)
Popcount(x) == IF Len(x) = 0 THEN 0 ELSE x[1] + Popcount(Tail(x))

\* the value of x read as a binary numeral, most significant digit first
RECURSIVE Value(_)
Value(x) == IF Len(x) = 0 THEN 0 ELSE 2 * Value(SubSeq(x, 1, Len(x) - 1)) + x[Len(x)]

ValidCovers(n, ww) == {x \in BinaryVectors(n) : check_full_edge_coverage(x, ww)}

\* the least number of 1-bits of a valid cover, np.inf when there is none
MinCover(n, ww) ==
    IF ValidCovers(n, ww) = {} THEN Inf
    ELSE Fin(CHOOSE m \in 0..n :
                /\ \E x \in ValidCovers(n, ww) : Popcount(x) = m
                /\ \A x \in ValidCovers(n, ww) : Popcount(x) >= m)

\* the running minimum over the candidates of index below k
MinBelow(k) ==
    LET counts == {count_nonzero(bitfield(j, L)) :
                     j \in {jj \in 0..(k - 1) : check_full_edge_coverage(bitfield(jj, L), w)}}
    IN  IF counts = {} THEN Inf
        ELSE Fin(CHOOSE m \in counts : \A c \in counts : m <= c)

Returned == pc \in {"print", "done", "solved"}

HasEdge == \E p \in DOMAIN w : w[p] # 0

\* ---- properties -------------------------------------------------------------
\* C1: brute_force() returns the minimum number of 1-bits over all length-N
\* binary vectors that satisfy the full-edge-coverage predicate.
C1_ReturnsMinimumCover == Returned => size = MinCover(num_nodes, w)

C1_Witness ==
    /\ pc = "done" /\ num_nodes = 3 /\ HasEdge /\ size = Fin(1)

\* C2: on the seeded 3-vertex graph brute_force() returns 2, and the solution
\* vector [0,1,1] asserted for the exact-eigensolver path is a valid cover
\* with exactly 2 selected vertices, so both paths agree.
C2_SeededGraphAgreement ==
    /\ (Returned /\ w = SeededGraph) => size = Fin(2)
    /\ pc = "solved" =>
          /\ sol = <<0, 1, 1>>
          /\ check_full_edge_coverage(sol, w)
          /\ Popcount(sol) = 2
          /\ size = Fin(Popcount(sol))

C2_Witness == pc = "solved" /\ w = SeededGraph /\ sol = <<0, 1, 1>> /\ size = Fin(2)

\* C3: brute_force() never returns np.inf: its result is an integer in 0..N.
C3_NeverInf == Returned => (~size.inf /\ size.val \in 0..num_nodes)

C3_Witness == pc = "done" /\ num_nodes = 3 /\ size = Fin(2)

\* C4: for an all-zero weight matrix brute_force() returns 0.
C4_EmptyGraphZero == (Returned /\ ~HasEdge) => size = Fin(0)

C4_Witness == pc = "done" /\ num_nodes = 3 /\ ~HasEdge /\ size = Fin(0)

\* C5: the all-ones vector of length N satisfies the full-edge-coverage
\* predicate; for N >= 1 it is the last candidate brute_force evaluates, and
\* it is found valid there.
C5_AllOnesValid ==
    /\ check_full_edge_coverage(AllOnes(num_nodes), w)
    /\ (Returned /\ num_nodes >= 1) => (cur = AllOnes(num_nodes) /\ cur_v)

C5_Witness ==
    /\ pc = "loop" /\ i = max /\ num_nodes = 3 /\ HasEdge
    /\ cur = AllOnes(3) /\ cur_v

\* C6: the validity predicate is monotonic: if v is a valid cover of w and
\* every bit set in v is also set in u, then u is a valid cover of w.
C6_Monotonic ==
    \A v \in BinaryVectors(num_nodes), u \in BinaryVectors(num_nodes) :
        ((\A k \in 1..num_nodes : v[k] = 1 => u[k] = 1) /\ check_full_edge_coverage(v, w))
            => check_full_edge_coverage(u, w)

C6_Witness ==
    /\ pc = "loop" /\ num_nodes = 3 /\ HasEdge
    /\ cur_v /\ count_nonzero(cur) = 1

\* C7: brute_force() is total: it evaluates the predicate exactly 2^N times,
\* once per integer 0..2^N-1, raises no error and always reaches its return.
C7_Total ==
    /\ [](pc # "error")
    /\ [](pc = "loop" => evals = i)
    /\ [](Returned => evals = Pow2(num_nodes))
    /\ <>Returned

C7_Witness == pc = "done" /\ num_nodes = 3 /\ evals = 8

\* C8: the brute-force cell prints a length-N 0/1 vector that is a valid cover
\* of minimal size, not only the size.
C8_PrintsAssignment ==
    pc \in {"done", "solved"} =>
        \E k \in DOMAIN stdout :
            /\ stdout[k].kind = "vector"
            /\ stdout[k].vec \in ValidCovers(num_nodes, w)
            /\ Fin(Popcount(stdout[k].vec)) = MinCover(num_nodes, w)

\* C9: loop invariant: after the iterations for 0..k-1, minimal_v is the
\* minimum popcount among the valid candidates of index below k (np.inf if
\* none); an iteration changes no input of the search, and minimal_v never
\* increases.
C9_LoopInvariant ==
    /\ [](pc = "loop" => minimal_v = MinBelow(i))
    /\ [][(pc = "loop" /\ i' = i + 1) =>
            /\ UNCHANGED <<num_nodes, w, L, max, size, stdout, sol>>
            /\ (minimal_v' = minimal_v \/ LessThan(minimal_v'.val, minimal_v))
            /\ (minimal_v.inf \/ ~minimal_v'.inf)]_vars

C9_Witness ==
    /\ pc = "loop" /\ num_nodes = 3 /\ i = 4 /\ minimal_v = Fin(2) /\ HasEdge

\* C10: the candidate for integer i is the N-digit, most-significant-first
\* binary expansion of i, of length exactly N (N = 0 included), and the
\* candidates of i = 0..2^N-1 are exactly the binary vectors of length N.
C10_CandidatesAreAllVectors ==
    /\ (pc = "loop" /\ i > 0) =>
          /\ Len(cur) = num_nodes
          /\ \A k \in 1..Len(cur) : cur[k] \in {0, 1}
          /\ Value(cur) = i - 1
    /\ pc = "loop" =>
          {bitfield(j, L) : j \in 0..(max - 1)} = BinaryVectors(num_nodes)

TypeOK ==
    /\ num_nodes \in 0..MaxNodes
    /\ pc \in {"call", "loop", "print", "done", "solved", "error"}
    /\ i \in 0..Pow2(MaxNodes)
    /\ evals \in 0..Pow2(MaxNodes)
====
